---- MODULE Spec2Model ----
(***************************************************************************)
(* A model of summary_mail/app.py: the column resolver (find_col,          *)
(* normalize_schema), the date normalizer (parse_any_date), the week       *)
(* partitioner (get_week_ranges), the deviation summary and the request    *)
(* handler upload_timesheet.                                               *)
(*                                                                         *)
(* Column labels are sequences of one-character strings, so that           *)
(* lowercasing and substring search are computed and not assumed.          *)
(* Calendar dates are proleptic Gregorian ordinals (date.toordinal()).     *)
(* A sheet is [cols, rows]: cols the header labels in left-to-right order, *)
(* rows the cells each row holds in the column resolved as Date.           *)
(***************************************************************************)
EXTENDS Integers, Sequences, FiniteSets, TLC

VARIABLES
    pc,         \* position in the handler (or in the function under study)
    req,        \* the request: receiver, file
    df_raw,     \* the sheet read by load_xlsx
    df,         \* the normalized table
    parsed,     \* parse_any_date applied to the Date column
    today,      \* datetime.now().date(), the reference date of the windows
    weeks,      \* (start_c, end_c), (start_n, end_n)
    cur,        \* Date_only of the current-week records
    nxt,        \* Date_only of the next-week records
    views,      \* cur_stats, nxt_plan, dev_sum
    html_body,  \* whether the document was rendered
    sends,      \* number of sendmail attempts
    response,   \* what the caller receives
    log,        \* the checks and steps executed so far, in order
    needles,    \* find_col: the needle list of the call
    found,      \* find_col: the returned column
    recs,       \* deviation_summary: the current-week records given
    dev_table   \* deviation_summary: the returned groups

vars == << pc, req, df_raw, df, parsed, today, weeks, cur, nxt,
           views, html_body, sends, response, log, needles, found, recs,
           dev_table >>

----------------------------------------------------------------------------
\* Bounds of the model.
MaxCols == 3      \* columns of a generated sheet
MaxRows == 2      \* rows of an uploaded sheet
MaxRecs == 2      \* records given to deviation_summary
MaxMins == 3      \* minutes of one record
MaxSerial == 1    \* largest spreadsheet serial / day offset of a date cell
MaxToday == 20    \* reference dates studied: ExcelEpoch .. ExcelEpoch + MaxToday

----------------------------------------------------------------------------
\* Needle lists, one per canonical field, in the order the code writes them.
\* app.py:38
date_needles ==
    << <<"d","a","t","e">> >>
\* app.py:44
cat_needles ==
    << <<"c","a","t","e","g","o","r","y">>,
       <<"c","a","t">> >>
\* app.py:45
sub_needles ==
    << <<"s","u","b","-","c","a","t","e","g","o","r","y">>,
       <<"s","u","b","c","a","t","e","g","o","r","y">>,
       <<"s","u","b"," ","c","a","t","e","g","o","r","y">>,
       <<"s","u","b","c","a","t">> >>
\* app.py:46
line_needles ==
    << <<"l","i","n","e"," ","i","t","e","m">>,
       <<"l","i","n","e","_","i","t","e","m">>,
       <<"l","i","n","e","i","t","e","m">>,
       <<"t","a","s","k">>,
       <<"a","c","t","i","v","i","t","y">>,
       <<"l","i">> >>
\* app.py:53
planned_li_needles ==
    << <<"p","l","a","n","n","e","d"," ","l","i">>,
       <<"p","l","a","n","n","e","d"," ","l","i","n","e">>,
       <<"p","l","a","n","n","e","d"," ","i","t","e","m","s">>,
       <<"p","l","a","n","n","e","d"," ","c","o","u","n","t">>,
       <<"p","l","a","n","n","e","d">> >>
\* app.py:54
actual_li_needles ==
    << <<"a","c","t","u","a","l"," ","l","i">>,
       <<"a","c","t","u","a","l"," ","l","i","n","e">>,
       <<"a","c","t","u","a","l"," ","i","t","e","m","s">>,
       <<"a","c","t","u","a","l"," ","c","o","u","n","t">>,
       <<"a","c","t","u","a","l">> >>
\* app.py:60
planned_eff_needles ==
    << <<"p","l","a","n","n","e","d"," ","e","f","f","o","r","t">>,
       <<"p","l","a","n","n","e","d"," ","e","f","f","o","r","t","s">>,
       <<"p","l","a","n","n","e","d"," ","m","i","n","s">>,
       <<"p","l","a","n","n","e","d"," ","m","i","n","u","t","e","s">> >>
\* app.py:61
actual_eff_needles ==
    << <<"a","c","t","u","a","l"," ","e","f","f","o","r","t">>,
       <<"a","c","t","u","a","l"," ","e","f","f","o","r","t","s">>,
       <<"a","c","t","u","a","l"," ","m","i","n","s">>,
       <<"a","c","t","u","a","l"," ","m","i","n","u","t","e","s">> >>
\* app.py:67
planned_det_needles ==
    << <<"p","l","a","n","n","e","d"," ","d","e","t","a","i","l","s">>,
       <<"p","l","a","n","n","e","d"," ","d","e","t","a","i","l">>,
       <<"p","l","a","n"," ","d","e","t","a","i","l">>,
       <<"p","l","a","n"," ","d","e","s","c">> >>
\* app.py:68
actual_det_needles ==
    << <<"a","c","t","u","a","l"," ","d","e","t","a","i","l","s">>,
       <<"a","c","t","u","a","l"," ","d","e","t","a","i","l">>,
       <<"a","c","t","u","a","l"," ","d","e","s","c">> >>

\* Canonical column names (app.py:41-82).
C_Date == <<"D","a","t","e">>
C_Category == <<"C","a","t","e","g","o","r","y">>
C_Subcategory == <<"S","u","b","c","a","t","e","g","o","r","y">>
C_LineItem == <<"L","i","n","e"," ","I","t","e","m">>
C_PlannedLI == <<"P","l","a","n","n","e","d"," ","L","I">>
C_ActualLI == <<"A","c","t","u","a","l"," ","L","I">>
C_PlannedEfforts == <<"P","l","a","n","n","e","d"," ","E","f","f","o","r","t","s"," ","(","m","i","n","s",")">>
C_ActualEfforts == <<"A","c","t","u","a","l"," ","E","f","f","o","r","t","s"," ","(","m","i","n","s",")">>
C_PlannedDetails == <<"P","l","a","n","n","e","d"," ","D","e","t","a","i","l","s">>
C_ActualDetails == <<"A","c","t","u","a","l"," ","D","e","t","a","i","l","s">>

\* Further input column labels (spreadsheet headers).
L_ActivityDate == <<"A","c","t","i","v","i","t","y"," ","D","a","t","e">>
L_Cat == <<"C","a","t">>
L_Task == <<"T","a","s","k">>
L_PlanCount == <<"P","l","a","n"," ","C","o","u","n","t">>
L_DoneCount == <<"D","o","n","e"," ","C","o","u","n","t">>
L_PlanMins == <<"P","l","a","n"," ","M","i","n","s">>
L_DoneMins == <<"D","o","n","e"," ","M","i","n","s">>
L_StartDate == <<"S","t","a","r","t"," ","D","a","t","e">>
L_Notes == <<"N","o","t","e","s">>

----------------------------------------------------------------------------
\* Column detection (app.py:27-33).

\* None, as find_col returns it; also the source of a column the code creates.
None == <<>>

\* str.lower() on one character.
LowerOf ==
    [ A |-> "a", B |-> "b", C |-> "c", D |-> "d", E |-> "e", F |-> "f",
      G |-> "g", H |-> "h", I |-> "i", J |-> "j", K |-> "k", L |-> "l",
      M |-> "m", N |-> "n", O |-> "o", P |-> "p", Q |-> "q", R |-> "r",
      S |-> "s", T |-> "t", U |-> "u", V |-> "v", W |-> "w", X |-> "x",
      Y |-> "y", Z |-> "z" ]

\* lc = str(c).lower()
lower(c) ==
    [ i \in 1..Len(c) |-> IF c[i] \in DOMAIN LowerOf THEN LowerOf[c[i]] ELSE c[i] ]

\* n in lc
contains(lc, n) ==
    \E i \in 1..(Len(lc) - Len(n) + 1) : SubSeq(lc, i, i + Len(n) - 1) = n

\* The inner loop: for n in needles: if n in lc: return c
RECURSIVE any_needle(_, _, _)
any_needle(lc, ns, j) ==
    IF j > Len(ns) THEN FALSE
    ELSE IF contains(lc, ns[j]) THEN TRUE
    ELSE any_needle(lc, ns, j + 1)

\* The outer loop: for c in cols, from column i on.
RECURSIVE find_from(_, _, _)
find_from(cols, ns, i) ==
    IF i > Len(cols) THEN None
    ELSE IF any_needle(lower(cols[i]), ns, 1) THEN cols[i]
    ELSE find_from(cols, ns, i + 1)

\* Variant: needles in the outer loop, columns in the inner one.
find_col_by_needle(cols, ns) ==
    LET hits == { h \in (1..Len(ns)) \X (1..Len(cols)) :
                    contains(lower(cols[h[2]]), ns[h[1]]) }
    IN  IF hits = {} THEN None
        ELSE LET best == CHOOSE h \in hits :
                           \A k \in hits : h[1] < k[1] \/ (h[1] = k[1] /\ h[2] <= k[2])
             IN  cols[best[2]]

find_col(cols, ns) == find_from(cols, ns, 1)

----------------------------------------------------------------------------
\* Schema normalization (app.py:35-94).
\* A table column is [name, src, conv]: its current label, the input column
\* whose values it carries (None for a column the code creates with the
\* default), and the coercion applied to the values.

Column(name, src, conv) == [name |-> name, src |-> src, conv |-> conv]

\* df.rename(columns={old: new}) guarded by "if old:"; a label that is no
\* longer present renames nothing.
rename(tcols, old, new) ==
    IF old = None THEN tcols
    ELSE [ i \in 1..Len(tcols) |->
             IF tcols[i].name = old THEN [tcols[i] EXCEPT !.name = new]
             ELSE tcols[i] ]

\* name in df.columns
has_col(tcols, name) == \E i \in 1..Len(tcols) : tcols[i].name = name

\* if name not in df.columns: df[name] = default
ensure(tcols, name) ==
    IF has_col(tcols, name) THEN tcols ELSE Append(tcols, Column(name, None, "raw"))

\* Columns carrying a label.
count_col(tcols, name) == Cardinality({ i \in 1..Len(tcols) : tcols[i].name = name })

\* df[name] = coercion(df[name]) on every column labelled name.
coerce(tcols, name, conv) ==
    [ i \in 1..Len(tcols) |->
        IF tcols[i].name = name THEN [tcols[i] EXCEPT !.conv = conv] ELSE tcols[i] ]

\* Lines 38-71: the renames, in source order, each resolved on the ORIGINAL
\* column list and applied to the table as renamed so far.
renamed(cols) ==
    LET t0  == [ i \in 1..Len(cols) |-> Column(cols[i], cols[i], "raw") ]
        t1  == rename(t0, find_col(cols, date_needles), C_Date)
        t2  == rename(t1, find_col(cols, cat_needles), C_Category)
        t3  == rename(t2, find_col(cols, sub_needles), C_Subcategory)
        t4  == rename(t3, find_col(cols, line_needles), C_LineItem)
        t5  == rename(t4, find_col(cols, planned_li_needles), C_PlannedLI)
        t6  == rename(t5, find_col(cols, actual_li_needles), C_ActualLI)
        t7  == rename(t6, find_col(cols, planned_eff_needles), C_PlannedEfforts)
        t8  == rename(t7, find_col(cols, actual_eff_needles), C_ActualEfforts)
        t9  == rename(t8, find_col(cols, planned_det_needles), C_PlannedDetails)
    IN  rename(t9, find_col(cols, actual_det_needles), C_ActualDetails)

\* Lines 74-82.
ensured(tcols) ==
    LET e1 == ensure(tcols, C_Category)
        e2 == ensure(e1, C_Subcategory)
        e3 == ensure(e2, C_LineItem)
        e4 == ensure(e3, C_PlannedLI)
        e5 == ensure(e4, C_ActualLI)
        e6 == ensure(e5, C_PlannedEfforts)
        e7 == ensure(e6, C_ActualEfforts)
        e8 == ensure(e7, C_PlannedDetails)
    IN  ensure(e8, C_ActualDetails)

NumericNames == { C_PlannedLI, C_ActualLI, C_PlannedEfforts, C_ActualEfforts }

\* Lines 85-92.  pd.to_numeric accepts a Series only: where two columns carry
\* the label, df[label] is a DataFrame and the call raises TypeError.  The
\* string coercion of line 92 accepts a DataFrame and keeps both columns.
coerced(tcols) ==
    LET n1 == coerce(tcols, C_PlannedLI, "int")
        n2 == coerce(n1, C_ActualLI, "int")
        n3 == coerce(n2, C_PlannedEfforts, "float")
        n4 == coerce(n3, C_ActualEfforts, "float")
        s1 == coerce(n4, C_Category, "str")
        s2 == coerce(s1, C_Subcategory, "str")
        s3 == coerce(s2, C_LineItem, "str")
        s4 == coerce(s3, C_PlannedDetails, "str")
    IN  coerce(s4, C_ActualDetails, "str")

Raised(err) == [ok |-> FALSE, err |-> err, cols |-> <<>>]
Returned(tcols) == [ok |-> TRUE, err |-> "", cols |-> tcols]

\* Variant: the date column is not required.
normalize_schema_unchecked(cols) ==
    LET t == ensured(renamed(cols))
    IN  IF \E n \in NumericNames : count_col(t, n) > 1
        THEN Raised("arg must be a list, tuple, 1-d array, or Series")
        ELSE Returned(coerced(t))

normalize_schema(cols) ==
    IF find_col(cols, date_needles) = None
    THEN Raised("No column containing 'date' found. Please include a Date column.")
    ELSE LET t == ensured(renamed(cols))
         IN  IF \E n \in NumericNames : count_col(t, n) > 1
             THEN Raised("arg must be a list, tuple, 1-d array, or Series")
             ELSE Returned(coerced(t))

----------------------------------------------------------------------------
\* Date normalization (app.py:97-123).
\* A cell is [kind, v, w]:
\*   "nan"   an empty cell (pd.isna);
\*   "ts"    a timestamp, v minutes since ordinal 0 (time of day included);
\*   "num"   a number, v the spreadsheet serial;
\*   "blank" text that strips to the empty string;
\*   "str"   other text, v what the month-first parse gives and w what the
\*           day-first parse gives (a date ordinal, or NaT).

\* pd.NaT
NaT == -1

\* origin="1899-12-30", as an ordinal
ExcelEpoch == 693594

MinutesPerDay == 1440

Cell(kind, v, w) == [kind |-> kind, v |-> v, w |-> w]

\* Timestamp.normalize(): midnight of the same day, kept as the date.
normalize(minutes) == minutes \div MinutesPerDay

\* Lines 118-123: month-first, then day-first, else NaT.
parse_text(val) ==
    LET dt == val.v
    IN  IF dt # NaT THEN dt
        ELSE IF val.w # NaT THEN val.w
        ELSE NaT

parse_any_date(val) ==
    IF val.kind = "nan" THEN NaT
    ELSE IF val.kind = "ts" THEN normalize(val.v)
    ELSE IF val.kind = "num" THEN normalize((ExcelEpoch + val.v) * MinutesPerDay)
    ELSE IF val.kind = "blank" THEN NaT
    ELSE parse_text(val)

\* df["Date"].apply(parse_any_date)
apply_parse(cells) == [ i \in 1..Len(cells) |-> parse_any_date(cells[i]) ]

\* Variant: any() in place of all().
isna_any(p) == \E i \in 1..Len(p) : p[i] = NaT

\* parsed.isna().all()
isna_all(p) == \A i \in 1..Len(p) : p[i] = NaT

\* Variant: no row is dropped.
dropna_keep(p) == p

\* df.dropna(subset=["Date_only"])
dropna(p) == SelectSeq(p, LAMBDA d : d # NaT)

----------------------------------------------------------------------------
\* Week windows (app.py:135-140, 247-248).

\* date.weekday(): Monday is 0; ordinal 1 is a Monday.
weekday(d) == (d + 6) % 7

\* Variant: isoweekday() (Monday is 1) in place of weekday().
get_week_ranges_iso(t) ==
    LET start_current == t - (weekday(t) + 1)
        end_current   == start_current + 6
        start_next    == end_current + 1
        end_next      == start_next + 6
    IN  << <<start_current, end_current>>, <<start_next, end_next>> >>

get_week_ranges(t) ==
    LET start_current == t - weekday(t)
        end_current   == start_current + 6
        start_next    == end_current + 1
        end_next      == start_next + 6
    IN  << <<start_current, end_current>>, <<start_next, end_next>> >>

\* df[(df["Date_only"] >= start) & (df["Date_only"] <= end)]
in_window(dates, w) == SelectSeq(dates, LAMBDA d : d >= w[1] /\ d <= w[2])

----------------------------------------------------------------------------
\* Deviation summary (app.py:166-188).
\* A record is [grp, pli, ali, pe, ae]: the (Category, Subcategory, Line Item)
\* key, Planned LI, Actual LI, Planned and Actual Efforts (mins).
\* Percentages are kept in tenths of a percent, the precision of the output.

\* agg "sum" of one field over the records of group g.
RECURSIVE group_sum(_, _, _, _)
group_sum(rs, g, fld, i) ==
    IF i > Len(rs) THEN 0
    ELSE (IF rs[i].grp = g THEN rs[i][fld] ELSE 0) + group_sum(rs, g, fld, i + 1)

\* Variant: truncation in place of rounding.
trunc_tenths(num, den) == (num * 1000) \div den

\* round(x, 1) of x = num / den * 100 with den > 0, in tenths: numpy rounds
\* half to even.
round_tenths(num, den) ==
    LET scaled == num * 1000
        q == scaled \div den
        r == scaled - q * den
    IN  IF 2 * r < den THEN q
        ELSE IF 2 * r > den THEN q + 1
        ELSE IF q % 2 = 0 THEN q ELSE q + 1

\* Line 180: delta / planned * 100.0 if planned else 0.0, then line 183.
effort_pct(delta, planned) ==
    IF planned # 0
    THEN (IF planned > 0 THEN round_tenths(delta, planned)
                         ELSE round_tenths(0 - delta, 0 - planned))
    ELSE 0

group_row(rs, g) ==
    LET pli == group_sum(rs, g, "pli", 1)
        ali == group_sum(rs, g, "ali", 1)
        pe  == group_sum(rs, g, "pe", 1)
        ae  == group_sum(rs, g, "ae", 1)
    IN  [ grp |-> g, pli |-> pli, ali |-> ali, li_delta |-> ali - pli,
          pe |-> pe, ae |-> ae, effort_delta |-> ae - pe,
          effort_pct |-> effort_pct(ae - pe, pe) ]

\* One row per key present; the empty input gives the empty table.
deviation_summary(rs) ==
    IF rs = <<>> THEN {}
    ELSE { group_row(rs, g) : g \in { rs[i].grp : i \in 1..Len(rs) } }

----------------------------------------------------------------------------
\* Section builders and rendering, on the Date_only column
\* (app.py:143-164, 191-218).

\* current_week_rows: one row per record (row-level, not grouped).
current_week_rows(dates) == [ i \in 1..Len(dates) |-> [Date_only |-> dates[i]] ]

\* next_week_rows: one row per record.
next_week_rows(dates) == [ i \in 1..Len(dates) |-> [Date_only |-> dates[i]] ]

\* The records deviation_summary(cur) aggregates, by their Date_only.
deviation_of(dates) == { dates[i] : i \in 1..Len(dates) }

\* groupby(["Category","Subcategory","Line Item"]) needs each key label once.
GroupKeys == { C_Category, C_Subcategory, C_LineItem }
groupby_raises(tcols) == \E k \in GroupKeys : count_col(tcols, k) > 1

\* html_table: the placeholder for an empty table, else the table.
html_table(is_empty) == IF is_empty THEN "placeholder" ELSE "table"

build_email_html(v) ==
    << html_table(v.cur_stats = <<>>), html_table(v.nxt_plan = <<>>),
       html_table(v.dev_sum = {}) >>

----------------------------------------------------------------------------
\* The request handler (app.py:221-280).

NoSheet == [cols |-> <<>>, rows |-> <<>>]
NoTable == [cols |-> <<>>, rows |-> <<>>, dates |-> <<>>]
NoViews == [cur_stats |-> <<>>, nxt_plan |-> <<>>, dev_sum |-> {}]
NoWeeks == << <<0, 0>>, <<0, 0>> >>
NoDoc   == <<>>
NotParsed == [done |-> FALSE, dates |-> <<>>]

\* No response yet.
Pending == [status |-> 0, body |-> [pending |-> TRUE]]

\* Variant: the message under the key of the success body.
error_response_message(msg, status) == [status |-> status, body |-> [message |-> msg]]

\* jsonify({"error": msg}), status
error_response(msg, status) == [status |-> status, body |-> [error |-> msg]]

\* Lines 271-277.
ok_response(w, n_cur, n_nxt) ==
    [ status |-> 200,
      body |-> [ message |-> "Email sent.", current_week_range |-> w[1],
                 next_week_range |-> w[2], current_rows |-> n_cur,
                 next_rows |-> n_nxt ] ]

\* Variant: the file is not required.
missing_receiver(r) == ~r.receiver

\* not receiver or not file
missing_input(r) == ~r.receiver \/ ~r.file.present

\* The handler returns (or the except clause answers) and the request ends.
Finish(resp) ==
    /\ response' = resp
    /\ pc' = "done"

\* Lines 224-227.
CheckInput ==
    /\ pc = "start"
    /\ log' = Append(log, "input")
    /\ IF missing_input(req)
       THEN Finish(error_response("receiver_email and .xlsx file required", 400))
       ELSE pc' = "load" /\ UNCHANGED response
    /\ UNCHANGED << req, df_raw, df, parsed, today, weeks, cur, nxt, views,
                    html_body, sends, needles, found, recs, dev_table >>

\* Line 230 and load_xlsx (126-132): the extension check, then read_excel.
LoadXlsx ==
    /\ pc = "load"
    /\ log' = Append(log, "extension")
    /\ IF ~req.file.xlsx
       THEN Finish(error_response("Only .xlsx files accepted.", 500))
            /\ UNCHANGED df_raw
       ELSE IF ~req.file.readable
       THEN Finish(error_response("File is not a zip file", 500))
            /\ UNCHANGED df_raw
       ELSE /\ df_raw' = req.file.sheet
            /\ pc' = "normalize"
            /\ UNCHANGED response
    /\ UNCHANGED << req, df, parsed, today, weeks, cur, nxt, views, html_body,
                    sends, needles, found, recs, dev_table >>

\* Line 232.
NormalizeSchema ==
    /\ pc = "normalize"
    /\ log' = Append(log, "schema")
    /\ LET r == normalize_schema(df_raw.cols)
       IN  IF ~r.ok
           THEN Finish(error_response(r.err, 500)) /\ UNCHANGED df
           ELSE /\ df' = [cols |-> r.cols, rows |-> df_raw.rows, dates |-> <<>>]
                /\ pc' = "parse"
                /\ UNCHANGED response
    /\ UNCHANGED << req, df_raw, parsed, today, weeks, cur, nxt, views,
                    html_body, sends, needles, found, recs, dev_table >>

\* Lines 235-242.  Where two columns are labelled Date, df["Date"] is a
\* DataFrame, parse_any_date receives a whole column and "if pd.isna(val)"
\* raises ValueError.
ParseDates ==
    /\ pc = "parse"
    /\ log' = Append(log, "dates")
    /\ IF count_col(df.cols, C_Date) > 1
       THEN Finish(error_response("The truth value of a Series is ambiguous.", 500))
            /\ UNCHANGED << parsed, df >>
       ELSE LET p == apply_parse(df.rows)
            IN  /\ parsed' = [done |-> TRUE, dates |-> p]
                /\ IF isna_all(p)
                   THEN Finish(error_response("No parsable dates found in 'Date' column", 400))
                        /\ UNCHANGED df
                   ELSE /\ df' = [df EXCEPT !.dates = dropna(p)]
                        /\ pc' = "weeks"
                        /\ UNCHANGED response
    /\ UNCHANGED << req, df_raw, today, weeks, cur, nxt, views, html_body,
                    sends, needles, found, recs, dev_table >>

\* Lines 244-248, with the clock reading one of the dates T.
PartitionAt(T) ==
    /\ pc = "weeks"
    /\ \E t \in T :
         LET w == get_week_ranges(t)
         IN  /\ today' = t
             /\ weeks' = w
             /\ cur' = in_window(df.dates, w[1])
             /\ nxt' = in_window(df.dates, w[2])
    /\ log' = Append(log, "weeks")
    /\ pc' = "aggregate"
    /\ UNCHANGED << req, df_raw, df, parsed, views, html_body, sends, response,
                    needles, found, recs, dev_table >>

\* Lines 250-252.
Aggregate ==
    /\ pc = "aggregate"
    /\ log' = Append(log, "views")
    /\ IF cur # <<>> /\ groupby_raises(df.cols)
       THEN Finish(error_response("Grouper not 1-dimensional", 500))
            /\ UNCHANGED views
       ELSE /\ views' = [ cur_stats |-> current_week_rows(cur),
                          nxt_plan |-> next_week_rows(nxt),
                          dev_sum |-> deviation_of(cur) ]
            /\ pc' = "render"
            /\ UNCHANGED response
    /\ UNCHANGED << req, df_raw, df, parsed, today, weeks, cur, nxt, html_body,
                    sends, needles, found, recs, dev_table >>

\* Lines 254-261.
Render ==
    /\ pc = "render"
    /\ log' = Append(log, "render")
    /\ html_body' = build_email_html(views)
    /\ pc' = "send"
    /\ UNCHANGED << req, df_raw, df, parsed, today, weeks, cur, nxt, views,
                    sends, response, needles, found, recs, dev_table >>

\* Lines 263-277: the SMTP session either delivers or raises.
Send ==
    /\ pc = "send"
    /\ log' = Append(log, "send")
    /\ sends' = sends + 1
    /\ \E delivered \in BOOLEAN :
         IF delivered
         THEN Finish(ok_response(weeks, Len(views.cur_stats), Len(views.nxt_plan)))
         ELSE Finish(error_response("SMTP transport failed", 500))
    /\ UNCHANGED << req, df_raw, df, parsed, today, weeks, cur, nxt, views,
                    html_body, needles, found, recs, dev_table >>

----------------------------------------------------------------------------
\* Inputs.

\* Sequences over S of length at most n.
SeqsUpTo(S, n) == UNION { [1..k -> S] : k \in 0..n }

\* Spreadsheet headers are distinct (read_excel renames a repeated header).
distinct(s) == \A i, j \in 1..Len(s) : i # j => s[i] # s[j]

LabelPool ==
    { L_ActivityDate, L_Cat, L_Task, L_PlanCount, L_DoneCount, L_PlanMins,
      L_DoneMins, L_StartDate, L_Notes, C_Date, C_Category, C_Subcategory,
      C_PlannedLI, C_PlannedEfforts }

\* The sheet of the end-to-end scenario.
ScenarioCols ==
    << L_ActivityDate, L_Cat, L_Task, L_PlanCount, L_DoneCount, L_PlanMins,
       L_DoneMins >>

InputSheets ==
    { s \in SeqsUpTo(LabelPool, MaxCols) : distinct(s) } \cup { ScenarioCols }

NeedleLists ==
    { date_needles, cat_needles, sub_needles, line_needles, planned_li_needles,
      actual_li_needles, planned_eff_needles, actual_eff_needles,
      planned_det_needles, actual_det_needles }

\* Headers of the uploaded sheets of the handler runs.
UploadCols ==
    { ScenarioCols,
      << C_Date, C_Category, C_PlannedLI, C_PlannedEfforts >>,
      << L_Cat, L_Task >>,
      << L_Notes >>,
      << C_Date, C_PlannedEfforts, C_PlannedLI >>,
      << L_StartDate, C_Date >>,
      << C_Date, C_Subcategory, C_Category >> }

Days == { ExcelEpoch + k : k \in 0..MaxSerial }

CellPool ==
    { Cell("nan", 0, 0), Cell("blank", 0, 0), Cell("str", NaT, NaT),
      Cell("str", ExcelEpoch + MaxSerial, ExcelEpoch) }
    \cup { Cell("str", d, d) : d \in Days }
    \cup { Cell("str", NaT, d) : d \in Days }
    \cup { Cell("ts", d * MinutesPerDay + 810, 0) : d \in Days }
    \cup { Cell("num", k, 0) : k \in 0..MaxSerial }

UploadSheets ==
    { [cols |-> c, rows |-> r] : c \in UploadCols, r \in SeqsUpTo(CellPool, MaxRows) }

File(present, xlsx, readable, sheet) ==
    [present |-> present, xlsx |-> xlsx, readable |-> readable, sheet |-> sheet]

Requests ==
    { [receiver |-> r, file |-> File(FALSE, FALSE, FALSE, NoSheet)] : r \in BOOLEAN }
    \cup { [receiver |-> r, file |-> File(TRUE, FALSE, TRUE, NoSheet)] : r \in BOOLEAN }
    \cup { [receiver |-> TRUE, file |-> File(TRUE, TRUE, FALSE, NoSheet)] }
    \cup { [receiver |-> r, file |-> File(TRUE, TRUE, TRUE, [cols |-> ScenarioCols, rows |-> <<>>])] :
             r \in { FALSE } }
    \cup { [receiver |-> TRUE, file |-> File(TRUE, TRUE, TRUE, s)] : s \in UploadSheets }

\* The clock of the handler runs: the week before the cells' dates, their
\* week, the week after.
UploadTodays == { ExcelEpoch - 7, ExcelEpoch, ExcelEpoch + 7 }

\* get_week_ranges studied alone.
WeekTodays == { ExcelEpoch + k : k \in 0..MaxToday }
WeekDates == { ExcelEpoch + k : k \in (0 - 8)..(MaxToday + 15) }

Groups == { "A", "B" }
RecPool ==
    { [grp |-> g, pli |-> 1, ali |-> 1, pe |-> p, ae |-> a] :
        g \in Groups, p \in 0..MaxMins, a \in 0..(MaxMins + 2) }

----------------------------------------------------------------------------
\* Specifications.

\* One request, from its arrival to its response.
Init ==
    /\ pc = "start"
    /\ req \in Requests
    /\ df_raw = NoSheet /\ df = NoTable /\ parsed = NotParsed
    /\ today = 0 /\ weeks = NoWeeks /\ cur = <<>> /\ nxt = <<>>
    /\ views = NoViews /\ html_body = NoDoc /\ sends = 0
    /\ response = Pending /\ log = <<>>
    /\ needles = <<>> /\ found = None /\ recs = <<>> /\ dev_table = {}

Partition == PartitionAt(UploadTodays)

Next ==
    \/ CheckInput
    \/ LoadXlsx
    \/ NormalizeSchema
    \/ ParseDates
    \/ Partition
    \/ Aggregate
    \/ Render
    \/ Send

Spec == Init /\ [][Next]_vars

\* find_col and normalize_schema on generated headers.
FindColCall ==
    /\ pc = "normalize"
    /\ \E ns \in NeedleLists :
         /\ needles' = ns
         /\ found' = find_col(df_raw.cols, ns)
    /\ pc' = "found"
    /\ UNCHANGED << req, df_raw, df, parsed, today, weeks, cur, nxt, views,
                    html_body, sends, response, log, recs, dev_table >>

SchemaInit ==
    /\ pc = "normalize"
    /\ req = [receiver |-> TRUE, file |-> File(TRUE, TRUE, TRUE, NoSheet)]
    /\ df_raw \in { [cols |-> c, rows |-> <<>>] : c \in InputSheets }
    /\ df = NoTable /\ parsed = NotParsed
    /\ today = 0 /\ weeks = NoWeeks /\ cur = <<>> /\ nxt = <<>>
    /\ views = NoViews /\ html_body = NoDoc /\ sends = 0
    /\ response = Pending /\ log = <<>>
    /\ needles = <<>> /\ found = None /\ recs = <<>> /\ dev_table = {}

SchemaNext == FindColCall \/ NormalizeSchema

SpecSchema == SchemaInit /\ [][SchemaNext]_vars

\* get_week_ranges and the partition on a range of reference dates.
WeekInit ==
    /\ pc = "weeks"
    /\ req = [receiver |-> TRUE, file |-> File(TRUE, TRUE, TRUE, NoSheet)]
    /\ df \in { [cols |-> <<>>, rows |-> <<>>, dates |-> <<d>>] : d \in WeekDates }
    /\ df_raw = NoSheet /\ parsed = NotParsed
    /\ today = 0 /\ weeks = NoWeeks /\ cur = <<>> /\ nxt = <<>>
    /\ views = NoViews /\ html_body = NoDoc /\ sends = 0
    /\ response = Pending /\ log = <<>>
    /\ needles = <<>> /\ found = None /\ recs = <<>> /\ dev_table = {}

WeekPartition == PartitionAt(WeekTodays)

WeekNext == WeekPartition

SpecWeek == WeekInit /\ [][WeekNext]_vars

\* deviation_summary on generated current-week records.
DeviationCall ==
    /\ pc = "deviation"
    /\ dev_table' = deviation_summary(recs)
    /\ pc' = "deviated"
    /\ UNCHANGED << req, df_raw, df, parsed, today, weeks, cur, nxt, views,
                    html_body, sends, response, log, needles, found, recs >>

DevInit ==
    /\ pc = "deviation"
    /\ req = [receiver |-> TRUE, file |-> File(TRUE, TRUE, TRUE, NoSheet)]
    /\ recs \in SeqsUpTo(RecPool, MaxRecs)
    /\ df_raw = NoSheet /\ df = NoTable /\ parsed = NotParsed
    /\ today = 0 /\ weeks = NoWeeks /\ cur = <<>> /\ nxt = <<>>
    /\ views = NoViews /\ html_body = NoDoc /\ sends = 0
    /\ response = Pending /\ log = <<>>
    /\ needles = <<>> /\ found = None /\ dev_table = {}

DevNext == DeviationCall

SpecDev == DevInit /\ [][DevNext]_vars

----------------------------------------------------------------------------
\* Properties.

Range(s) == { s[i] : i \in 1..Len(s) }
Last(s) == s[Len(s)]
IsPrefix(s, t) == Len(s) <= Len(t) /\ SubSeq(t, 1, Len(s)) = s

\* The index of the first needle of ns the label contains; Len(ns) + 1 if none.
FirstNeedle(c, ns) ==
    LET hits == { j \in 1..Len(ns) : contains(lower(c), ns[j]) }
    IN  IF hits = {} THEN Len(ns) + 1
        ELSE CHOOSE j \in hits : \A k \in hits : j <= k

\* C1: find_col chooses by needle priority, not by column position: no column
\* contains a needle earlier in the list than the first needle the returned
\* column contains; the result is None only when no column contains a needle.
C1_NeedlePriority ==
    pc = "found" =>
        LET cols == df_raw.cols
        IN  /\ (found = None) <=>
                 (\A i \in 1..Len(cols) : FirstNeedle(cols[i], needles) > Len(needles))
            /\ found # None =>
                 \A i \in 1..Len(cols) :
                     FirstNeedle(found, needles) <= FirstNeedle(cols[i], needles)

\* The table has exactly one column labelled name and it carries the values
\* of input column src (None: the default the code fills in).
Carries(name, src) ==
    /\ count_col(df.cols, name) = 1
    /\ \A i \in 1..Len(df.cols) : df.cols[i].name = name => df.cols[i].src = src

ScenarioNormalized == df_raw.cols = ScenarioCols /\ pc \in { "parse", "done" }

\* C2, as stated: on the scenario sheet the seven headers map to Date,
\* Category, Line Item, Planned LI, Actual LI, Planned Efforts, Actual Efforts
\* and the three other fields take their defaults.
C2_ScenarioMapsSeven ==
    ScenarioNormalized =>
        /\ pc = "parse"
        /\ Carries(C_Date, L_ActivityDate)
        /\ Carries(C_Category, L_Cat)
        /\ Carries(C_LineItem, L_Task)
        /\ Carries(C_PlannedLI, L_PlanCount)
        /\ Carries(C_ActualLI, L_DoneCount)
        /\ Carries(C_PlannedEfforts, L_PlanMins)
        /\ Carries(C_ActualEfforts, L_DoneMins)
        /\ Carries(C_Subcategory, None)
        /\ Carries(C_PlannedDetails, None)
        /\ Carries(C_ActualDetails, None)

\* C2, amended: on the scenario sheet only "Activity Date" and "Cat" are
\* mapped (to Date and Category); Line Item, Planned LI, Actual LI, Planned
\* Efforts, Actual Efforts, Subcategory and both Details fields take their
\* defaults, and the five other input columns keep their own labels.
C2_ScenarioMapsTwo ==
    ScenarioNormalized =>
        /\ pc = "parse"
        /\ Carries(C_Date, L_ActivityDate)
        /\ Carries(C_Category, L_Cat)
        /\ \A n \in { C_LineItem, C_PlannedLI, C_ActualLI, C_PlannedEfforts,
                      C_ActualEfforts, C_Subcategory, C_PlannedDetails,
                      C_ActualDetails } : Carries(n, None)
        /\ \A l \in { L_Task, L_PlanCount, L_DoneCount, L_PlanMins, L_DoneMins } :
               Carries(l, l)

C2_Witness == ScenarioNormalized /\ pc = "parse" /\ Len(df.cols) = 15

CanonicalNames ==
    { C_Date, C_Category, C_Subcategory, C_LineItem, C_PlannedLI, C_ActualLI,
      C_PlannedEfforts, C_ActualEfforts, C_PlannedDetails, C_ActualDetails }

\* C10: the table normalize_schema returns has exactly one column for each
\* canonical field name, whatever the order of the input columns.
C10_OneColumnPerField ==
    (pc = "parse" /\ Last(log) = "schema") =>
        \A n \in CanonicalNames : count_col(df.cols, n) = 1

\* No column label contains "date", case-insensitively.
NoDateLabel(cols) ==
    \A i \in 1..Len(cols) : ~contains(lower(cols[i]), <<"d","a","t","e">>)

SchemaChecked == "schema" \in Range(log)

\* C3: for a sheet none of whose labels contains "date", normalize_schema
\* raises the schema error and the request ends in a failure response, with
\* no row date-parsed, partitioned or aggregated and no mail send attempted.
C3_NoDateColumnFails ==
    (SchemaChecked /\ NoDateLabel(df_raw.cols)) =>
        /\ pc = "done"
        /\ log = << "input", "extension", "schema" >>
        /\ response.status # 200
        /\ response.body =
             [error |-> "No column containing 'date' found. Please include a Date column."]
        /\ df = NoTable /\ ~parsed.done
        /\ today = 0 /\ cur = <<>> /\ nxt = <<>>
        /\ views = NoViews /\ html_body = NoDoc
        /\ sends = 0

C3_Witness ==
    SchemaChecked /\ NoDateLabel(df_raw.cols) /\ Len(df_raw.rows) = MaxRows
    /\ \E i \in 1..Len(df_raw.rows) : parse_any_date(df_raw.rows[i]) # NaT

IsMonday(d) == d % 7 = 1

\* C4: the current window starts on a Monday, contains today and ends 6 days
\* after its start; the next window starts the day after and ends 6 days
\* later; every record date falls in at most one of the two subsets, and in
\* a subset exactly when it lies in that window.
C4_WeekWindows ==
    pc = "aggregate" =>
        LET start_c == weeks[1][1]
            end_c   == weeks[1][2]
            start_n == weeks[2][1]
            end_n   == weeks[2][2]
        IN  /\ IsMonday(start_c)
            /\ start_c <= today /\ today <= end_c
            /\ end_c = start_c + 6
            /\ start_n = end_c + 1
            /\ end_n = start_n + 6
            /\ \A d \in Range(df.dates) :
                 /\ ~(d \in Range(cur) /\ d \in Range(nxt))
                 /\ d \in Range(cur) <=> (start_c <= d /\ d <= start_c + 6)
                 /\ d \in Range(nxt) <=> (start_c + 7 <= d /\ d <= start_c + 13)

\* A Wednesday as reference date, and a record in the next week.
C4_Witness == pc = "aggregate" /\ today % 7 = 3 /\ nxt # <<>> /\ cur = <<>>

\* The parsable dates of p, in order.
RECURSIVE Parsable(_)
Parsable(p) ==
    IF p = <<>> THEN <<>>
    ELSE IF Head(p) = NaT THEN Parsable(Tail(p))
    ELSE <<Head(p)>> \o Parsable(Tail(p))

SomeParsable == parsed.done /\ \E i \in 1..Len(parsed.dates) : parsed.dates[i] # NaT
NoneParsable == parsed.done /\ \A i \in 1..Len(parsed.dates) : parsed.dates[i] = NaT

\* C5: when at least one row has a parsable date, the rows with an
\* unparseable date are dropped without an error, every row with a parsable
\* date is kept for partitioning, and no record with a null date reaches the
\* current-week view, the next-week view or the deviation summary.
C5_UnparseableRowsDropped ==
    /\ SomeParsable =>
         /\ df.dates = Parsable(parsed.dates)
         /\ Last(log) = "dates" => (pc = "weeks" /\ response = Pending)
         /\ pc \in { "aggregate", "render", "send", "done" } =>
              \A d \in Range(df.dates) :
                  d \in Range(cur) \cup Range(nxt) \/ d < weeks[1][1] \/ d > weeks[2][2]
    /\ NaT \notin Range(cur) \cup Range(nxt) \cup views.dev_sum
    /\ \A i \in 1..Len(views.cur_stats) : views.cur_stats[i].Date_only # NaT
    /\ \A i \in 1..Len(views.nxt_plan) : views.nxt_plan[i].Date_only # NaT

C5_Witness ==
    /\ SomeParsable
    /\ NaT \in Range(parsed.dates)
    /\ Len(df.dates) < Len(parsed.dates)
    /\ views.cur_stats # <<>>
    /\ response.status = 200

\* C6: when no row has a parsable date, the request fails with the date
\* error before any view is aggregated and before any mail send is attempted.
C6_NoParsableDateFails ==
    NoneParsable =>
        /\ pc = "done"
        /\ log = << "input", "extension", "schema", "dates" >>
        /\ response.status # 200
        /\ response.body = [error |-> "No parsable dates found in 'Date' column"]
        /\ today = 0 /\ cur = <<>> /\ nxt = <<>>
        /\ views = NoViews /\ html_body = NoDoc
        /\ sends = 0

C6_Witness == NoneParsable /\ Len(parsed.dates) = MaxRows

StepOrder ==
    << "input", "extension", "schema", "dates", "weeks", "views", "render", "send" >>

Failed == pc = "done" /\ response.status # 200

\* C7: the checks run in the order missing-input, file-extension,
\* date-column resolution, date parsing; a mail send is attempted at most
\* once and only after all of them passed and the three views and the
\* document were built; a failed check ends the request with nothing parsed
\* further and nothing sent.
C7_CheckOrder ==
    /\ IsPrefix(log, StepOrder)
    /\ sends <= 1
    /\ sends = 1 <=> (log = StepOrder)
    /\ sends = 1 =>
         /\ parsed.done /\ ~NoneParsable
         /\ views.cur_stats = current_week_rows(cur)
         /\ views.nxt_plan = next_week_rows(nxt)
         /\ Len(html_body) = 3
    /\ (log # <<>> /\ (~req.receiver \/ ~req.file.present)) =>
         (Failed /\ log = << "input" >>)
    /\ (Len(log) >= 2 /\ ~req.file.xlsx) =>
         (Failed /\ log = << "input", "extension" >>)
    /\ (Failed /\ Len(log) <= 2) => (df_raw = NoSheet /\ df = NoTable)
    /\ (Failed /\ Len(log) <= 3) => (~parsed.done /\ df = NoTable)
    /\ (Failed /\ Len(log) <= 4) => (today = 0 /\ cur = <<>> /\ nxt = <<>>)
    /\ (Failed /\ Len(log) <= 6) => html_body = NoDoc
    /\ (Failed /\ Len(log) <= 7) => sends = 0
    /\ response # Pending <=> pc = "done"

C7_Witness == sends = 1 /\ response.status = 200 /\ Len(parsed.dates) = MaxRows

\* C8, as stated: every failure is answered with the response of the
\* catch-all boundary: one status, one body shape carrying an error message.
C8_UniformFailure ==
    Failed => (response.status = 500 /\ DOMAIN response.body = { "error" })

\* C8, amended: every failure has the same body shape, an object with the one
\* key "error"; the status is 400 for a missing input and for a sheet with no
\* parsable date, and 500 for every other failure.
C8_FailureShape ==
    Failed =>
        /\ DOMAIN response.body = { "error" }
        /\ response.status =
             IF log = << "input" >> \/ (Last(log) = "dates" /\ parsed.done)
             THEN 400 ELSE 500

C8_Witness == Failed /\ Last(log) = "send" /\ response.status = 500

\* The sum of a field over the records of a group.
RECURSIVE SumOf(_, _, _)
SumOf(rs, g, fld) ==
    IF rs = <<>> THEN 0
    ELSE (IF Head(rs).grp = g THEN Head(rs)[fld] ELSE 0) + SumOf(Tail(rs), g, fld)

GroupsOf(rs) == { rs[i].grp : i \in 1..Len(rs) }

RowsOf(g) == { row \in dev_table : row.grp = g }

Abs(x) == IF x < 0 THEN 0 - x ELSE x

\* C9, as stated: a group whose planned minutes sum to 0 has percentage 0; any
\* other group has exactly (actual - planned) / planned * 100.
C9_ExactPercentage ==
    pc = "deviated" =>
        \A g \in GroupsOf(recs) :
            LET planned == SumOf(recs, g, "pe")
                actual  == SumOf(recs, g, "ae")
            IN  /\ Cardinality(RowsOf(g)) = 1
                /\ \A row \in RowsOf(g) :
                     IF planned = 0 THEN row.effort_pct = 0
                     ELSE row.effort_pct * planned = (actual - planned) * 1000

\* C9, amended: a group whose planned minutes sum to 0 has percentage exactly
\* 0; any other group has (actual - planned) / planned * 100 rounded to one
\* decimal place.
C9_RoundedPercentage ==
    pc = "deviated" =>
        \A g \in GroupsOf(recs) :
            LET planned == SumOf(recs, g, "pe")
                actual  == SumOf(recs, g, "ae")
            IN  /\ Cardinality(RowsOf(g)) = 1
                /\ \A row \in RowsOf(g) :
                     IF planned = 0 THEN row.effort_pct = 0
                     ELSE 2 * Abs(row.effort_pct * planned - (actual - planned) * 1000)
                            <= Abs(planned)

\* Planned 0 with actual 5, beside a group whose percentage is rounded.
C9_Witness ==
    /\ pc = "deviated"
    /\ \E row \in dev_table : row.pe = 0 /\ row.ae = 5 /\ row.effort_pct = 0
    /\ \E row \in dev_table : row.pe = 3 /\ row.ae = 1 /\ row.effort_pct = 0 - 667

====
